---- MODULE Spec2Model ----
(***************************************************************************)
(* osc2mqtt: the conversion rule engine (converter.py) and the bridge      *)
(* handlers (__init__.py).                                                 *)
(*                                                                         *)
(* Text is a sequence of one-character strings, a byte string a sequence   *)
(* of numbers 0..255.  A Python value is a record [t, v]: t names its      *)
(* type, v holds its content.  A call that may raise returns a record      *)
(* [ok, v, exc].                                                           *)
(***************************************************************************)
EXTENDS Integers, Sequences, FiniteSets, TLC

(* ------------------------------------------------------------------ *)
(* Python values                                                       *)
(* ------------------------------------------------------------------ *)
PyNone == [t |-> "none", v |-> <<>>]
PyInt(n) == [t |-> "int", v |-> n]
\* a float, held in tenths: PyFloat(19) is 1.9
PyFloat(n) == [t |-> "float", v |-> n]
PyBool(b) == [t |-> "bool", v |-> b]
PyStr(s) == [t |-> "str", v |-> s]
PyBytes(b) == [t |-> "bytes", v |-> b]
PyList(xs) == [t |-> "list", v |-> xs]
PyTuple(xs) == [t |-> "tuple", v |-> xs]

IsNone(x) == x.t = "none"
IsSeqValue(x) == x.t \in {"list", "tuple"}

Ok(x) == [ok |-> TRUE, v |-> x, exc |-> ""]
Raise(e) == [ok |-> FALSE, v |-> <<>>, exc |-> e]

(* ------------------------------------------------------------------ *)
(* Characters and their codes (ASCII)                                  *)
(* ------------------------------------------------------------------ *)
Digits == <<"0", "1", "2", "3", "4", "5", "6", "7", "8", "9">>
HexDigits == Digits \o <<"a", "b", "c", "d", "e", "f">>

CharCodes ==
  << <<" ", 32>>, <<"'", 39>>, <<"(", 40>>, <<")", 41>>, <<",", 44>>,
     <<".", 46>>, <<"/", 47>>,
     <<"0", 48>>, <<"1", 49>>, <<"2", 50>>, <<"3", 51>>, <<"4", 52>>,
     <<"5", 53>>, <<"6", 54>>, <<"7", 55>>, <<"8", 56>>, <<"9", 57>>,
     <<"F", 70>>, <<"N", 78>>, <<"T", 84>>,
     <<"[", 91>>, <<"\\", 92>>, <<"]", 93>>, <<"_", 95>>,
     <<"a", 97>>, <<"b", 98>>, <<"c", 99>>, <<"d", 100>>, <<"e", 101>>,
     <<"f", 102>>, <<"l", 108>>, <<"n", 110>>, <<"o", 111>>, <<"r", 114>>,
     <<"s", 115>>, <<"u", 117>>, <<"x", 120>>, <<"{", 123>>, <<"}", 125>> >>

IsDigit(c) == \E i \in 1..Len(Digits) : Digits[i] = c
DigitVal(c) == (CHOOSE i \in 1..Len(Digits) : Digits[i] = c) - 1

Ord(c) == CharCodes[CHOOSE i \in 1..Len(CharCodes) : CharCodes[i][1] = c][2]
HasChr(b) == \E i \in 1..Len(CharCodes) : CharCodes[i][2] = b
Chr(b) == CharCodes[CHOOSE i \in 1..Len(CharCodes) : CharCodes[i][2] = b][1]

\* str.encode(): the text's bytes (the model's text is ASCII)
Encode(s) == [i \in 1..Len(s) |-> Ord(s[i])]

\* bytes.decode('utf-8'): a byte >= 128 standing alone is no UTF-8 text
Decode(b) ==
  IF \E i \in 1..Len(b) : b[i] >= 128 \/ ~HasChr(b[i])
    THEN Raise("UnicodeDecodeError")
    ELSE Ok([i \in 1..Len(b) |-> Chr(b[i])])

RECURSIVE IntToStr(_)
IntToStr(n) ==
  IF n < 10 THEN <<Digits[n + 1]>>
  ELSE IntToStr(n \div 10) \o <<Digits[(n % 10) + 1]>>

RECURSIVE DigitsToInt(_)
DigitsToInt(s) ==
  IF s = <<>> THEN 0
  ELSE 10 * DigitsToInt(SubSeq(s, 1, Len(s) - 1)) + DigitVal(s[Len(s)])

AllDigits(s) == s # <<>> /\ \A i \in 1..Len(s) : IsDigit(s[i])

RECURSIVE Join(_, _)
Join(parts, sep) ==
  IF parts = <<>> THEN <<>>
  ELSE IF Len(parts) = 1 THEN parts[1]
  ELSE parts[1] \o sep \o Join(Tail(parts), sep)

\* repr() of one byte inside b'...'
ByteRepr(b) ==
  IF HasChr(b) /\ b # 39 /\ b # 92 THEN <<Chr(b)>>
  ELSE <<"\\", "x", HexDigits[(b \div 16) + 1], HexDigits[(b % 16) + 1]>>

RECURSIVE PyRepr(_)
RECURSIVE PyToStr(_)
\* str(x)
PyToStr(x) ==
  CASE x.t = "str" -> x.v
    [] OTHER -> PyRepr(x)

\* repr(x)
PyRepr(x) ==
  CASE x.t = "none" -> <<"N", "o", "n", "e">>
    [] x.t = "int" -> IntToStr(x.v)
    [] x.t = "float" -> IntToStr(x.v \div 10) \o <<".">> \o IntToStr(x.v % 10)
    [] x.t = "bool" -> IF x.v THEN <<"T", "r", "u", "e">>
                                ELSE <<"F", "a", "l", "s", "e">>
    [] x.t = "str" -> <<"'">> \o x.v \o <<"'">>
    [] x.t = "bytes" ->
         <<"b", "'">> \o Join([i \in 1..Len(x.v) |-> ByteRepr(x.v[i])], <<>>)
                      \o <<"'">>
    [] x.t = "list" ->
         <<"[">> \o Join([i \in 1..Len(x.v) |-> PyRepr(x.v[i])], <<",", " ">>)
                 \o <<"]">>
    [] x.t = "tuple" ->
         <<"(">> \o Join([i \in 1..Len(x.v) |-> PyRepr(x.v[i])], <<",", " ">>)
                 \o (IF Len(x.v) = 1 THEN <<",">> ELSE <<>>) \o <<")">>

(* ------------------------------------------------------------------ *)
(* re: patterns, search and match objects                              *)
(* ------------------------------------------------------------------ *)
\* A pattern is held as its sequence of tokens: Bol for ^, Eol for $,
\* Lit(c) for the character c, Opt(c) for c?, and Grp(class, min, name) for
\* a capture group of one greedy repetition: class "any" with min 0 is a
\* group of dot-star, class "digit" with min 1 a group of backslash-d-plus;
\* name is the group's name in a (?P<name>...) group, <<>> otherwise.
Bol == [t |-> "bol", c |-> "", min |-> 0, name |-> <<>>]
Eol == [t |-> "eol", c |-> "", min |-> 0, name |-> <<>>]
Lit(c) == [t |-> "lit", c |-> c, min |-> 0, name |-> <<>>]
Opt(c) == [t |-> "opt", c |-> c, min |-> 0, name |-> <<>>]
Grp(class, min, name) == [t |-> "grp", c |-> class, min |-> min, name |-> name]

NoMatch ==
  [ok |-> FALSE, caps |-> <<>>, names |-> <<>>, whole |-> <<>>, end |-> 0]

SetMax(S) == CHOOSE m \in S : \A k \in S : k <= m

InClass(class, c) == IF class = "digit" THEN IsDigit(c) ELSE TRUE

\* the match of tokens ti.. of p at position pos of s, the groups captured so
\* far being caps (names: the name of each group, <<>> when it has none);
\* quantifiers are greedy and backtrack
RECURSIVE MatchAt(_, _, _, _, _, _)
MatchAt(p, ti, s, pos, caps, names) ==
  IF ti > Len(p)
    THEN [ok |-> TRUE, caps |-> caps, names |-> names, whole |-> <<>>,
          end |-> pos]
  ELSE LET tok == p[ti] IN
    CASE tok.t = "bol" ->
           IF pos = 1 THEN MatchAt(p, ti + 1, s, pos, caps, names) ELSE NoMatch
      [] tok.t = "eol" ->
           IF pos = Len(s) + 1 THEN MatchAt(p, ti + 1, s, pos, caps, names)
           ELSE NoMatch
      [] tok.t = "lit" ->
           IF pos <= Len(s) /\ s[pos] = tok.c
             THEN MatchAt(p, ti + 1, s, pos + 1, caps, names)
             ELSE NoMatch
      [] tok.t = "opt" ->
           LET taken == IF pos <= Len(s) /\ s[pos] = tok.c
                          THEN MatchAt(p, ti + 1, s, pos + 1, caps, names)
                          ELSE NoMatch
           IN  IF taken.ok THEN taken
               ELSE MatchAt(p, ti + 1, s, pos, caps, names)
      [] tok.t = "grp" ->
           LET fits(k) == \A i \in pos..(pos + k - 1) : InClass(tok.c, s[i])
               rest(k) == MatchAt(p, ti + 1, s, pos + k,
                                  Append(caps, SubSeq(s, pos, pos + k - 1)),
                                  Append(names, tok.name))
               K == {k \in tok.min..(Len(s) - pos + 1) : fits(k) /\ rest(k).ok}
           IN  IF K = {} THEN NoMatch ELSE rest(SetMax(K))

\* re.search(p, s): the match at the leftmost position where p matches
RECURSIVE SearchFrom(_, _, _)
SearchFrom(p, s, start) ==
  IF start > Len(s) + 1 THEN NoMatch
  ELSE LET m == MatchAt(p, 1, s, start, <<>>, <<>>)
       IN  IF m.ok THEN [m EXCEPT !.whole = SubSeq(s, start, m.end - 1)]
           ELSE SearchFrom(p, s, start + 1)

Search(p, s) == SearchFrom(p, s, 1)

\* match.groups(''): every group's text
Groups(m) == m.caps

\* match.groupdict(''): <<name, text>> of every named group
GroupDict(m) ==
  LET idx == {i \in 1..Len(m.names) : m.names[i] # <<>>}
      RECURSIVE Build(_)
      Build(i) == IF i > Len(m.names) THEN <<>>
                  ELSE IF i \in idx
                         THEN << <<m.names[i], m.caps[i]>> >> \o Build(i + 1)
                         ELSE Build(i + 1)
  IN  Build(1)

\* match.group(g) for one index or name g (a PyInt or a PyStr)
Group1(m, g) ==
  IF g.t = "int"
    THEN IF g.v = 0 THEN Ok(PyStr(m.whole))
         ELSE IF g.v <= Len(m.caps) THEN Ok(PyStr(m.caps[g.v]))
         ELSE Raise("IndexError")
    ELSE LET hit == {i \in 1..Len(m.names) : m.names[i] = g.v}
         IN  IF hit = {} THEN Raise("IndexError")
             ELSE Ok(PyStr(m.caps[CHOOSE i \in hit : TRUE]))

\* match.group(*gs): one group's text for one argument, the tuple of the
\* groups' texts for several (gs is never empty where the code calls it)
Group(m, gs) ==
  LET each == [i \in 1..Len(gs) |-> Group1(m, gs[i])]
  IN  IF \E i \in 1..Len(gs) : ~each[i].ok THEN Raise("IndexError")
      ELSE IF Len(gs) = 1 THEN each[1]
      ELSE Ok(PyTuple([i \in 1..Len(gs) |-> each[i].v]))

(* ------------------------------------------------------------------ *)
(* str.format                                                          *)
(* ------------------------------------------------------------------ *)
\* the first position >= i of s holding c, 0 when there is none
RECURSIVE Find(_, _, _)
Find(s, c, i) ==
  IF i > Len(s) THEN 0 ELSE IF s[i] = c THEN i ELSE Find(s, c, i + 1)

\* the value a replacement field names: digits index the positional
\* arguments from 0, any other name is a keyword
Field(name, args, kw) ==
  IF AllDigits(name)
    THEN IF DigitsToInt(name) < Len(args)
           THEN Ok(args[DigitsToInt(name) + 1]) ELSE Raise("IndexError")
    ELSE LET hit == {i \in 1..Len(kw) : kw[i][1] = name}
         IN  IF hit = {} THEN Raise("KeyError")
             ELSE Ok(kw[CHOOSE i \in hit : TRUE][2])

\* tpl.format(*args, **kw) from position i of tpl on; the templates of the
\* model hold fields {n} and {name} only (no {}, no !conversion, no :spec)
RECURSIVE FormatFrom(_, _, _, _)
FormatFrom(tpl, i, args, kw) ==
  IF i > Len(tpl) THEN Ok(<<>>)
  ELSE LET glue(head, next) ==
             LET r == FormatFrom(tpl, next, args, kw)
             IN  IF r.ok THEN Ok(head \o r.v) ELSE r
       IN
    IF tpl[i] = "{" THEN
      IF i < Len(tpl) /\ tpl[i + 1] = "{" THEN glue(<<"{">>, i + 2)
      ELSE LET j == Find(tpl, "}", i + 1)
           IN  IF j = 0 THEN Raise("ValueError")
               ELSE LET f == Field(SubSeq(tpl, i + 1, j - 1), args, kw)
                    IN  IF f.ok THEN glue(PyToStr(f.v), j + 1) ELSE f
    ELSE IF tpl[i] = "}" THEN
      IF i < Len(tpl) /\ tpl[i + 1] = "}" THEN glue(<<"}">>, i + 2)
      ELSE Raise("ValueError")
    ELSE glue(<<tpl[i]>>, i + 1)

Format(tpl, args, kw) == FormatFrom(tpl, 1, args, kw)

(* ------------------------------------------------------------------ *)
(* util.parse_list, util.as_bool                                       *)
(* ------------------------------------------------------------------ *)
Strip(s) ==
  LET keep == {i \in 1..Len(s) : s[i] # " "}
  IN  IF keep = {} THEN <<>>
      ELSE SubSeq(s, CHOOSE i \in keep : \A k \in keep : i <= k, SetMax(keep))

RECURSIVE Split(_, _)
Split(s, sep) ==
  LET j == Find(s, sep, 1)
  IN  IF j = 0 THEN <<s>>
      ELSE <<SubSeq(s, 1, j - 1)>> \o Split(SubSeq(s, j + 1, Len(s)), sep)

\* a comma-delimited list string to its tokens: a numeric token is an
\* integer index, any other a name; a value that is no string is a field of
\* the wrong shape
parse_list(x) ==
  IF x.t # "str" THEN Raise("TypeError")
  ELSE IF Strip(x.v) = <<>> THEN Ok(<<>>)
  ELSE LET parts == Split(x.v, ",")
       IN  Ok([i \in 1..Len(parts) |->
                 IF AllDigits(Strip(parts[i]))
                   THEN PyInt(DigitsToInt(Strip(parts[i])))
                   ELSE PyStr(Strip(parts[i]))])

\* the truth value of x
as_bool(x) ==
  Ok(PyBool(CASE x.t = "none" -> FALSE
              [] x.t = "bool" -> x.v
              [] x.t \in {"int", "float"} -> x.v # 0
              [] OTHER -> x.v # <<>>))

(* ------------------------------------------------------------------ *)
(* The conversion functions float, int, str                            *)
(* ------------------------------------------------------------------ *)
\* the text of a str or bytes value, for int() and float()
NumText(x) ==
  IF x.t = "str" THEN Ok(Strip(x.v))
  ELSE LET d == Decode(x.v) IN IF d.ok THEN Ok(Strip(d.v)) ELSE Raise("ValueError")

int(x) ==
  CASE x.t = "int" -> Ok(x)
    [] x.t = "bool" -> Ok(PyInt(IF x.v THEN 1 ELSE 0))
    [] x.t = "float" -> Ok(PyInt(x.v \div 10))
    [] x.t \in {"str", "bytes"} ->
         LET s == NumText(x)
         IN  IF s.ok /\ AllDigits(s.v) THEN Ok(PyInt(DigitsToInt(s.v)))
             ELSE Raise("ValueError")
    [] OTHER -> Raise("TypeError")

\* floats of the model have one decimal digit
float(x) ==
  CASE x.t = "float" -> Ok(x)
    [] x.t = "int" -> Ok(PyFloat(10 * x.v))
    [] x.t = "bool" -> Ok(PyFloat(IF x.v THEN 10 ELSE 0))
    [] x.t \in {"str", "bytes"} ->
         LET s == NumText(x)
             dot == IF s.ok THEN Find(s.v, ".", 1) ELSE 0
         IN  IF ~s.ok THEN Raise("ValueError")
             ELSE IF AllDigits(s.v) THEN Ok(PyFloat(10 * DigitsToInt(s.v)))
             ELSE IF dot > 1 /\ dot = Len(s.v) - 1
                     /\ AllDigits(SubSeq(s.v, 1, dot - 1)) /\ IsDigit(s.v[Len(s.v)])
               THEN Ok(PyFloat(10 * DigitsToInt(SubSeq(s.v, 1, dot - 1))
                               + DigitVal(s.v[Len(s.v)])))
             ELSE Raise("ValueError")
    [] OTHER -> Raise("TypeError")

str(x) == Ok(PyStr(PyToStr(x)))

PyFunc(f) == [t |-> "func", v |-> f]

\* Osc2MqttConverter._converters.get(name)
converters_get(name) ==
  IF name.t # "str" THEN PyNone
  ELSE CASE name.v \in {<<"f">>, <<"f", "l", "o", "a", "t">>} -> PyFunc("float")
         [] name.v \in {<<"i">>, <<"i", "n", "t">>} -> PyFunc("int")
         [] name.v \in {<<"s">>, <<"s", "t", "r">>} -> PyFunc("str")
         [] name.v \in {<<"b">>, <<"b", "o", "o", "l">>} -> PyFunc("as_bool")
         [] OTHER -> PyNone

\* func(value)
Call(func, x) ==
  CASE func.v = "float" -> float(x)
    [] func.v = "int" -> int(x)
    [] func.v = "str" -> str(x)
    [] func.v = "as_bool" -> as_bool(x)

Min(a, b) == IF a < b THEN a ELSE b

\* zip(a, b): as many pairs as the shorter of the two has elements
Zip(a, b) == [i \in 1..Min(Len(a), Len(b)) |-> <<a[i], b[i]>>]

\* tuple(func(value) if func else value for func, value in zip(...))
ConvertZip(converters, values) ==
  IF ~IsSeqValue(values) THEN Raise("TypeError")
  ELSE LET pairs == Zip(converters, values.v)
           each == [i \in 1..Len(pairs) |->
                      IF pairs[i][1].t = "func" THEN Call(pairs[i][1], pairs[i][2])
                      ELSE Ok(pairs[i][2])]
           bad == {i \in 1..Len(pairs) : ~each[i].ok}
       IN  IF bad # {} THEN each[CHOOSE i \in bad : \A k \in bad : i <= k]
           ELSE Ok(PyTuple([i \in 1..Len(pairs) |-> each[i].v]))

convert_mqtt_values(converters, values) == ConvertZip(converters, values)

convert_osc_values(converters, values) == ConvertZip(converters, values)

(* ------------------------------------------------------------------ *)
(* json, struct, array                                                 *)
(* ------------------------------------------------------------------ *)
RECURSIVE SkipWs(_, _)
SkipWs(s, i) == IF i <= Len(s) /\ s[i] = " " THEN SkipWs(s, i + 1) ELSE i

RECURSIVE DigitsEnd(_, _)
DigitsEnd(s, i) == IF i <= Len(s) /\ IsDigit(s[i]) THEN DigitsEnd(s, i + 1) ELSE i

JsonFail == [ok |-> FALSE, v |-> PyNone, pos |-> 0]

\* the JSON value at position i of s; the JSON texts of the model are
\* integers and arrays, any other text is refused
RECURSIVE JsonValue(_, _)
RECURSIVE JsonItems(_, _, _)
JsonValue(s, i0) ==
  LET i == SkipWs(s, i0)
  IN  IF i > Len(s) THEN JsonFail
      ELSE IF s[i] = "[" THEN
        LET k == SkipWs(s, i + 1)
        IN  IF k <= Len(s) /\ s[k] = "]"
              THEN [ok |-> TRUE, v |-> PyList(<<>>), pos |-> k + 1]
              ELSE JsonItems(s, i + 1, <<>>)
      ELSE IF IsDigit(s[i]) THEN
        LET e == DigitsEnd(s, i)
        IN  IF s[i] = "0" /\ e > i + 1 THEN JsonFail
            ELSE [ok |-> TRUE, v |-> PyInt(DigitsToInt(SubSeq(s, i, e - 1))),
                  pos |-> e]
      ELSE JsonFail

JsonItems(s, i, acc) ==
  LET x == JsonValue(s, i)
      k == IF x.ok THEN SkipWs(s, x.pos) ELSE 0
  IN  IF ~x.ok \/ k > Len(s) THEN JsonFail
      ELSE IF s[k] = "," THEN JsonItems(s, k + 1, Append(acc, x.v))
      ELSE IF s[k] = "]"
        THEN [ok |-> TRUE, v |-> PyList(Append(acc, x.v)), pos |-> k + 1]
      ELSE JsonFail

\* json.loads(text)
json_loads(s) ==
  LET x == JsonValue(s, 1)
  IN  IF x.ok /\ SkipWs(s, x.pos) = Len(s) + 1 THEN Ok(x.v)
      ELSE Raise("JSONDecodeError")

\* json.dumps(x)
RECURSIVE json_dumps(_)
json_dumps(x) ==
  CASE x.t = "none" -> Ok(<<"n", "u", "l", "l">>)
    [] x.t = "bool" -> Ok(IF x.v THEN <<"t", "r", "u", "e">>
                                 ELSE <<"f", "a", "l", "s", "e">>)
    [] x.t \in {"int", "float"} -> Ok(PyRepr(x))
    [] x.t = "str" -> Ok(<<"\"">> \o x.v \o <<"\"">>)
    [] x.t \in {"list", "tuple"} ->
         LET each == [i \in 1..Len(x.v) |-> json_dumps(x.v[i])]
         IN  IF \E i \in 1..Len(x.v) : ~each[i].ok THEN Raise("TypeError")
             ELSE Ok(<<"[">> \o Join([i \in 1..Len(x.v) |-> each[i].v],
                                     <<",", " ">>) \o <<"]">>)
    [] OTHER -> Raise("TypeError")

\* the number of values a struct format lays out; the formats of the model
\* are made of the code B, one unsigned byte
StructCount(fmt) ==
  IF \A i \in 1..Len(fmt) : fmt[i] = "B" THEN Ok(Len(fmt))
  ELSE Raise("struct.error")

\* struct.unpack_from(fmt, data): data may be longer than the layout
struct_unpack_from(fmt, data) ==
  LET n == StructCount(fmt)
  IN  IF ~n.ok THEN n
      ELSE IF data.t # "bytes" THEN Raise("TypeError")
      ELSE IF Len(data.v) < n.v THEN Raise("struct.error")
      ELSE Ok(PyTuple([i \in 1..n.v |-> PyInt(data.v[i])]))

IsUByte(x) ==
  \/ x.t = "int" /\ x.v \in 0..255
  \/ x.t = "bool"

UByte(x) == IF x.t = "bool" THEN (IF x.v THEN 1 ELSE 0) ELSE x.v

\* struct.pack(fmt, *values)
struct_pack(fmt, values) ==
  LET n == StructCount(fmt)
  IN  IF ~n.ok THEN n
      ELSE IF ~IsSeqValue(values) THEN Raise("TypeError")
      ELSE IF Len(values.v) # n.v THEN Raise("struct.error")
      ELSE IF \E i \in 1..n.v : ~IsUByte(values.v[i]) THEN Raise("struct.error")
      ELSE Ok(PyBytes([i \in 1..n.v |-> UByte(values.v[i])]))

\* tuple(array.array(typecode, data)); the typecode of the model is B
array_from_bytes(typecode, data) ==
  IF typecode # <<"B">> THEN Raise("ValueError")
  ELSE IF data.t # "bytes" THEN Raise("TypeError")
  ELSE Ok(PyTuple([i \in 1..Len(data.v) |-> PyInt(data.v[i])]))

\* array.array(typecode, values).tostring()
array_to_bytes(typecode, values) ==
  IF typecode # <<"B">> THEN Raise("ValueError")
  ELSE IF ~IsSeqValue(values) THEN Raise("TypeError")
  ELSE IF \E i \in 1..Len(values.v) : values.v[i].t # "int" THEN Raise("TypeError")
  ELSE IF \E i \in 1..Len(values.v) : values.v[i].v \notin 0..255
    THEN Raise("OverflowError")
  ELSE Ok(PyBytes([i \in 1..Len(values.v) |-> values.v[i].v]))

\* data.decode(rule.format or 'utf-8'): bytes have decode, text has not
DecodeText(data, fmt) ==
  IF data.t # "bytes" THEN Raise("AttributeError")
  ELSE IF fmt \notin {<<>>, <<"u", "t", "f", "-", "8">>} THEN Raise("LookupError")
  ELSE Decode(data.v)

(* ------------------------------------------------------------------ *)
(* Osc2MqttConverter.decode_values, encode_values                      *)
(* ------------------------------------------------------------------ *)
decode_values(data, rule) ==
  CASE rule.type = "json" ->
         LET text == DecodeText(data, rule.format)
         IN  IF text.ok THEN json_loads(text.v) ELSE text
    [] rule.type = "struct" -> struct_unpack_from(rule.format, data)
    [] rule.type = "array" -> array_from_bytes(rule.format, data)
    [] rule.type = "string" ->
         LET text == DecodeText(data, rule.format)
         IN  IF text.ok THEN Ok(PyTuple(<<PyStr(text.v)>>)) ELSE text
    [] OTHER -> Ok(PyTuple(<<data>>))

\* the comparison  type == 'array'  of encode_values: type is the builtin,
\* not rule.type, and the builtin equals no string
BuiltinTypeIsArray == FALSE

encode_values(values, rule) ==
  IF rule.type = "json" THEN
    LET text == json_dumps(values)
    IN  IF text.ok THEN Ok(PyStr(text.v)) ELSE text
  ELSE IF rule.type = "struct" THEN struct_pack(rule.format, values)
  ELSE IF BuiltinTypeIsArray THEN array_to_bytes(rule.format, values)
  ELSE IF rule.type = "string" THEN
    IF ~IsSeqValue(values) THEN Raise("TypeError")
    ELSE Ok(PyStr(Join([i \in 1..Len(values.v) |-> PyToStr(values.v[i])], <<>>)))
  ELSE IF ~IsSeqValue(values) THEN Raise("TypeError")
  ELSE IF Len(values.v) = 1 THEN Ok(PyBytes(Encode(PyToStr(values.v[1]))))
  ELSE Ok(PyBytes(Encode(PyToStr(values))))

(* ------------------------------------------------------------------ *)
(* read_config: the fields a rule section leaves out                   *)
(* ------------------------------------------------------------------ *)
\* the pattern ^/?(.*) as tokens
DefaultMatch == <<Bol, Opt("/"), Grp("any", 0, <<>>)>>

defaults ==
  [match |-> DefaultMatch,
   address |-> <<"/", "\\", "1">>,
   topic |-> <<"\\", "1">>,
   address_groups |-> PyNone,
   topic_groups |-> PyNone,
   type |-> "struct",
   format |-> <<"B">>,
   from_mqtt |-> PyNone,
   from_osc |-> PyNone,
   osctags |-> PyNone]

\* dict(parser.items(section)): the section's settings over the defaults
Section(settings) ==
  [k \in DOMAIN defaults |->
     IF k \in DOMAIN settings THEN settings[k] ELSE defaults[k]]

(* ------------------------------------------------------------------ *)
(* Osc2MqttConverter.__init__                                          *)
(* ------------------------------------------------------------------ *)
\* [self._converters.get(f) for f in parse_list(field)]
ConverterList(field) ==
  LET names == parse_list(field)
  IN  IF names.ok
        THEN Ok(PyList([i \in 1..Len(names.v) |-> converters_get(names.v[i])]))
        ELSE names

GroupList(field) ==
  LET toks == parse_list(field)
  IN  IF toks.ok THEN Ok(PyList(toks.v)) ELSE toks

\* one assignment of the loop's body,  rule[field] = parsed : st is the loop
\* body's state so far, [ok, v: the caller's mapping for the rule, exc]
SetField(st, field, parsed) ==
  IF ~st.ok THEN st
  ELSE IF parsed.ok THEN [st EXCEPT !.v = [st.v EXCEPT ![field] = parsed.v]]
  ELSE [ok |-> FALSE, v |-> st.v, exc |-> "ConfigError"]

SetFromMqtt(st) ==
  IF IsNone(st.v.from_mqtt) THEN st
  ELSE SetField(st, "from_mqtt", ConverterList(st.v.from_mqtt))

SetFromOsc(st) ==
  IF IsNone(st.v.from_osc) THEN st
  ELSE SetField(st, "from_osc", ConverterList(st.v.from_osc))

SetAddressGroups(st) ==
  IF IsNone(st.v.address_groups) THEN st
  ELSE SetField(st, "address_groups", GroupList(st.v.address_groups))

SetTopicGroups(st) ==
  IF IsNone(st.v.topic_groups) THEN st
  ELSE SetField(st, "topic_groups", GroupList(st.v.topic_groups))

\* the body of the loop for one rule: the four fields are replaced in the
\* caller's mapping itself, one after the other, up to the first that
\* raises; v is the mapping as the loop leaves it
CompileRule(rule) ==
  SetTopicGroups(SetAddressGroups(SetFromOsc(SetFromMqtt(
    [ok |-> TRUE, v |-> rule, exc |-> ""]))))

\* Osc2MqttConverter(rules): rules is the caller's mapping, a sequence of
\* <<name, fields>> in declaration order.  The result holds self.rules (when
\* ok) and the caller's mapping as the constructor leaves it.
RECURSIVE CompileFrom(_, _, _)
CompileFrom(defs, i, done) ==
  IF i > Len(defs) THEN [ok |-> TRUE, rules |-> done, defs |-> defs]
  ELSE LET c == CompileRule(defs[i][2])
           defs1 == [defs EXCEPT ![i] = <<defs[i][1], c.v>>]
       IN  IF c.ok THEN CompileFrom(defs1, i + 1, Append(done, <<defs[i][1], c.v>>))
           ELSE [ok |-> FALSE, rules |-> <<>>, defs |-> defs1]

Compile(defs) == CompileFrom(defs, 1, <<>>)

(* ------------------------------------------------------------------ *)
(* Osc2MqttConverter.match_rule (the function lru_cache wraps)         *)
(* ------------------------------------------------------------------ *)
NoRule == [found |-> FALSE, name |-> "", rule |-> defaults, match |-> NoMatch]

RECURSIVE ScanFrom(_, _, _)
ScanFrom(rules, i, topicoraddr) ==
  IF i > Len(rules) THEN NoRule
  ELSE LET m == Search(rules[i][2].match, topicoraddr)
       IN  IF m.ok THEN [found |-> TRUE, name |-> rules[i][1],
                         rule |-> rules[i][2], match |-> m]
           ELSE ScanFrom(rules, i + 1, topicoraddr)

\* a scan that does not return at the first match: the last matching rule
\* is the one left in hand
RECURSIVE ScanOn(_, _, _, _)
ScanOn(rules, i, topicoraddr, found) ==
  IF i > Len(rules) THEN found
  ELSE LET m == Search(rules[i][2].match, topicoraddr)
       IN  ScanOn(rules, i + 1, topicoraddr,
                  IF m.ok THEN [found |-> TRUE, name |-> rules[i][1],
                                rule |-> rules[i][2], match |-> m]
                  ELSE found)

match_rule_last(rules, topicoraddr) == ScanOn(rules, 1, topicoraddr, NoRule)

match_rule(rules, topicoraddr) == ScanFrom(rules, 1, topicoraddr)

(* ------------------------------------------------------------------ *)
(* Osc2MqttConverter.from_mqtt, from_osc                               *)
(* ------------------------------------------------------------------ *)
\* a local variable no assignment has bound yet
Unbound == [t |-> "unbound", v |-> <<>>]

\* bool(x) of a rule field: None, '' and [] are false
Truthy(x) == ~IsNone(x) /\ x.v # <<>>

\* values + extra_values
Add(values, extra) ==
  IF values.t = "unbound" THEN Raise("UnboundLocalError")
  ELSE IF values.t # "list" \/ extra.t # "list" THEN Raise("TypeError")
  ELSE Ok(PyList(values.v \o extra.v))

\* extra_values: match.group(*groups), as a list
ExtraValues(match, groups) ==
  LET g == Group(match, groups.v)
  IN  IF ~g.ok THEN g
      ELSE IF Len(groups.v) = 1 THEN Ok(PyList(<<g.v>>))
      ELSE Ok(PyList(g.v.v))

\* kwargs = match.groupdict(''); kwargs['_values'] = values
Kwargs(match, values) ==
  LET key == <<"_", "v", "a", "l", "u", "e", "s">>
      gd == GroupDict(match)
      named == [i \in 1..Len(gd) |-> <<gd[i][1], PyStr(gd[i][2])>>]
  IN  SelectSeq(named, LAMBDA e : e[1] # key) \o << <<key, values>> >>

PosArgs(match) == [i \in 1..Len(Groups(match)) |-> PyStr(Groups(match)[i])]

\* tuple(zip(rule.osctags, values))
TagValues(osctags, values) ==
  IF ~IsSeqValue(values) THEN Raise("TypeError")
  ELSE LET pairs == Zip(osctags.v, values.v)
       IN  Ok(PyTuple([i \in 1..Len(pairs) |->
                         PyTuple(<<PyStr(<<pairs[i][1]>>), pairs[i][2]>>)]))

NoResult == [match |-> FALSE, id |-> <<>>, data |-> PyNone]

\* rule.from_mqtt not in (None, ''), rule.from_osc not in (None, '')
HasConverters(field) == ~IsNone(field) /\ field # PyStr(<<>>)

\* from_mqtt, statement by statement; each takes what the statements before
\* it computed and ends the call when one of them raised

\* return addr, values
MqttReturn(addr, values) ==
  IF ~addr.ok THEN addr
  ELSE Ok([match |-> TRUE, id |-> addr.v, data |-> values])

\* addr = rule.address.format(*match.groups(''), **addr_kwargs)
MqttRender(rule, match, decoded, tagged) ==
  IF ~tagged.ok THEN tagged
  ELSE MqttReturn(Format(rule.address, PosArgs(match), Kwargs(match, decoded)),
                  tagged.v)

\* if rule.osctags: values = tuple(zip(rule.osctags, values))
MqttTag(rule, match, decoded, converted) ==
  MqttRender(rule, match, decoded,
             IF converted.ok /\ Truthy(rule.osctags)
               THEN TagValues(rule.osctags, converted.v) ELSE converted)

\* if rule.from_mqtt not in (None, ''): values = self.convert_mqtt_values(...)
MqttConvert(rule, match, decoded) ==
  IF ~decoded.ok THEN decoded
  ELSE MqttTag(rule, match, decoded.v,
               IF HasConverters(rule.from_mqtt)
                 THEN convert_mqtt_values(rule.from_mqtt.v, decoded.v)
                 ELSE decoded)

\* values = self.decode_values(payload, rule)
MqttDecode(rule, match, payload, added) ==
  IF ~added.ok THEN added
  ELSE MqttConvert(rule, match, decode_values(payload, rule))

\* values = values + extra_values, values being bound by no statement before
MqttAdd(extra) == IF extra.ok THEN Add(Unbound, extra.v) ELSE extra

\* from_mqtt after  result = self.match_rule(topic)
from_mqtt(result, payload) ==
  IF ~result.found THEN Ok(NoResult)
  ELSE MqttDecode(result.rule, result.match, payload,
                  IF Truthy(result.rule.topic_groups)
                    THEN MqttAdd(ExtraValues(result.match,
                                             result.rule.topic_groups))
                    ELSE Ok(Unbound))

\* from_osc, statement by statement

\* return topic, data
OscReturn(topic, data) ==
  IF ~data.ok THEN data
  ELSE Ok([match |-> TRUE, id |-> topic, data |-> data.v])

\* data = self.encode_values(values, rule)
OscEncode(rule, converted, topic) ==
  IF ~topic.ok THEN topic
  ELSE OscReturn(topic.v, encode_values(converted, rule))

\* topic = rule.topic.format(*match.groups(''), **topic_kwargs)
OscRender(rule, match, values, converted) ==
  IF ~converted.ok THEN converted
  ELSE OscEncode(rule, converted.v,
                 Format(rule.topic, PosArgs(match), Kwargs(match, values)))

\* if rule.from_osc not in (None, ''): values = self.convert_osc_values(...)
OscConvert(rule, match, values) ==
  IF ~values.ok THEN values
  ELSE OscRender(rule, match, values.v,
                 IF HasConverters(rule.from_osc)
                   THEN convert_osc_values(rule.from_osc.v, values.v)
                   ELSE values)

\* values = values + extra_values
OscAdd(oscdata, extra) == IF extra.ok THEN Add(oscdata, extra.v) ELSE extra

\* from_osc after  result = self.match_rule(addr)
from_osc(result, oscdata) ==
  IF ~result.found THEN Ok(NoResult)
  ELSE OscConvert(result.rule, result.match,
                  IF Truthy(result.rule.address_groups)
                    THEN OscAdd(oscdata, ExtraValues(result.match,
                                                     result.rule.address_groups))
                    ELSE Ok(oscdata))

(* ------------------------------------------------------------------ *)
(* The configurations, identifiers and payloads of the model           *)
(* ------------------------------------------------------------------ *)
\* ^/?a/(.*)
MatchA == <<Bol, Opt("/"), Lit("a"), Lit("/"), Grp("any", 0, <<>>)>>
\* ^/?a/(?P<n>\d+)$
MatchLight == <<Bol, Opt("/"), Lit("a"), Lit("/"), Grp("digit", 1, <<"n">>), Eol>>
\* b
MatchB == <<Lit("b")>>

Utf8 == <<"u", "t", "f", "-", "8">>

\* rule sections as a configuration file declares them, in its order
RuleAll == <<"all", Section([type |-> "struct"])>>
RuleAny ==
  <<"any", Section([address |-> <<"/", "x", "/", "{", "0", "}">>,
                    topic |-> <<"x", "/", "{", "0", "}">>])>>
RuleLight ==
  <<"light", Section([match |-> MatchLight,
                      address |-> <<"/", "l", "/", "{", "n", "}">>,
                      topic |-> <<"l", "/", "{", "n", "}">>,
                      from_osc |-> PyStr(<<"i">>)])>>
RuleGroups ==
  <<"groups", Section([match |-> MatchA,
                       address |-> <<"/", "g", "/", "{", "0", "}">>,
                       topic |-> <<"g", "/", "{", "0", "}">>,
                       topic_groups |-> PyStr(<<"1">>),
                       address_groups |-> PyStr(<<"1">>),
                       from_mqtt |-> PyStr(<<"i">>),
                       from_osc |-> PyStr(<<"i", ",", "s">>)])>>
RuleJson ==
  <<"json", Section([match |-> MatchA,
                     address |-> <<"/", "j", "/", "{", "0", "}">>,
                     topic |-> <<"j", "/", "{", "0", "}">>,
                     type |-> "json",
                     format |-> Utf8,
                     osctags |-> PyStr(<<"i", "i">>)])>>
RuleText ==
  <<"text", Section([match |-> MatchB,
                     address |-> <<"/", "t">>,
                     topic |-> <<"t">>,
                     type |-> "string",
                     format |-> <<>>,
                     from_mqtt |-> PyStr(<<"f">>)])>>
RuleArray ==
  <<"array", Section([match |-> MatchB,
                      address |-> <<"/", "r">>,
                      topic |-> <<"r">>,
                      type |-> "array"])>>

Configs ==
  { <<RuleAll>>,
    <<RuleAny, RuleLight>>,
    <<RuleGroups, RuleText>>,
    <<RuleJson, RuleArray>> }

\* the configurations the bridge is started with: <<rules, OSC receiver set>>
Setups ==
  {<<c, TRUE>> : c \in Configs}
    \cup {<<c, FALSE>> : c \in {<<RuleAll>>}}

Identifiers ==
  { <<"/", "a", "/", "b">>, <<"a", "/", "7">>, <<"b">>, <<"c">> }

\* payloads the pub/sub transport delivers: the texts [1] and 7, and nothing
Payloads == { PyBytes(<<91, 49, 93>>), PyBytes(<<55>>), PyBytes(<<>>) }

\* value lists the datagram transport delivers
OscValues == { PyList(<<PyInt(42)>>), PyList(<<PyInt(1), PyInt(2)>>) }

\* the threads that call the converter: the pub/sub client's loop thread
\* and a request thread of the datagram server
Threads == {"mqtt", "osc"}

Inputs(t) == IF t = "mqtt" THEN Payloads ELSE OscValues

\* entries the match cache holds at most
maxsize == 2

VARIABLES
  given,          \* the rule definitions as the configuration declares them
  defs,           \* the mapping the converters are constructed from
  convs,          \* the converters constructed: [ok, rules]
  osc_receiver,   \* whether an OSC receiver is configured
  cache,          \* match_rule's cache: <<key, result>>, most recent first
  pc,             \* each thread's position in its handler: "idle", or
                  \* "scanned": match_rule has run after a miss of the
                  \* cache and its result is not stored yet
  msg,            \* the message each thread handles: [id, data]
  res,            \* the result of match_rule in each thread
  out,            \* how each thread's last handler call ended
  oscSent,        \* send_message calls of the last handle_mqtt call
  mqttPublished,  \* publish calls of each thread's last handle_osc call
  fnIn,           \* the arguments of a function applied alone
  fnOut           \* its result

vars == <<given, defs, convs, osc_receiver, cache, pc, msg, res, out,
          oscSent, mqttPublished, fnIn, fnOut>>

NoMsg == [id |-> <<>>, data |-> PyNone]
NoOut == [status |-> "none", exc |-> "", res |-> NoResult, hit |-> FALSE]
NoFn == [op |-> "none"]

\* self.rules of the converter the bridge holds
Rules == convs[1].rules

(* ------------------------------------------------------------------ *)
(* lru_cache around match_rule                                         *)
(* ------------------------------------------------------------------ *)
\* a key that tells identifiers apart by their length only
make_key_len(topicoraddr) == Len(topicoraddr)

\* the cache key of a call: the identifier (self is the one converter)
make_key(topicoraddr) == topicoraddr

CacheHas(c, key) == \E i \in 1..Len(c) : c[i][1] = key

CacheGet(c, key) == c[CHOOSE i \in 1..Len(c) : c[i][1] = key][2]

\* a hit makes the entry the most recent one
CacheTouch(c, key) ==
  LET i == CHOOSE k \in 1..Len(c) : c[k][1] = key
  IN  <<c[i]>> \o SubSeq(c, 1, i - 1) \o SubSeq(c, i + 1, Len(c))

\* a store that, the cache being full, writes the result into the least
\* recent entry and leaves that entry's key
CachePut_torn(c, key, result) ==
  IF CacheHas(c, key) THEN c
  ELSE IF Len(c) >= maxsize
    THEN << <<c[Len(c)][1], result>> >> \o SubSeq(c, 1, Len(c) - 1)
  ELSE << <<key, result>> >> \o c

\* storing after a miss: nothing when another thread stored the key in the
\* meantime, else the least recent entry is dropped when the cache is full
CachePut(c, key, result) ==
  IF CacheHas(c, key) THEN c
  ELSE IF Len(c) >= maxsize THEN << <<key, result>> >> \o SubSeq(c, 1, maxsize - 1)
  ELSE << <<key, result>> >> \o c

(* ------------------------------------------------------------------ *)
(* The bridge: Osc2MqttBridge.handle_mqtt and handle_osc               *)
(* ------------------------------------------------------------------ *)
\* main(): the converter is constructed once from the configuration's
\* rules, then the bridge starts with an empty cache and idle threads
Init ==
  /\ \E s \in Setups : given = s[1] /\ osc_receiver = s[2]
  /\ defs = Compile(given).defs
  /\ convs = <<[ok |-> Compile(given).ok, rules |-> Compile(given).rules]>>
  /\ cache = <<>>
  /\ pc = [t \in Threads |-> "idle"]
  /\ msg = [t \in Threads |-> NoMsg]
  /\ res = [t \in Threads |-> NoRule]
  /\ out = [t \in Threads |-> NoOut]
  /\ oscSent = <<>>
  /\ mqttPublished = <<>>
  /\ fnIn = NoFn
  /\ fnOut = NoFn

Raised(e) == [status |-> "raised", exc |-> e, res |-> NoResult]
Returned(r) == [status |-> "returned", exc |-> "", res |-> r]

\* what a thread's handler call leaves behind, h being the handler's
\* [out, calls]
Finish(t, h, hit) ==
  /\ out' = [out EXCEPT ![t] = [status |-> h.out.status, exc |-> h.out.exc,
                                res |-> h.out.res, hit |-> hit]]
  /\ oscSent' = IF t = "mqtt" THEN h.calls ELSE oscSent
  /\ mqttPublished' = IF t = "osc" THEN h.calls ELSE mqttPublished
  /\ pc' = [pc EXCEPT ![t] = "idle"]


\* self.oscclient.send_message(res[0], *res[1]): the call handle_mqtt issues
SendMessage(r) == [address |-> r.id, args |-> r.data.v]

\* self.mqttclient.publish(*res)
Publish(r) == [topic |-> r.id, payload |-> r.data]

\* a handle_mqtt that sends whether or not a receiver is configured
MqttForward_always(r, receiver) ==
  IF ~r.ok THEN [out |-> Raised(r.exc), calls |-> <<>>]
  ELSE IF ~r.v.match THEN [out |-> Returned(r.v), calls |-> <<>>]
  ELSE IF ~IsSeqValue(r.v.data) THEN [out |-> Raised("TypeError"), calls |-> <<>>]
  ELSE [out |-> Returned(r.v), calls |-> <<SendMessage(r.v)>>]

\* if res: ... else: log  -- what handle_mqtt does with the result r of
\* from_mqtt: [out: how the handler ends, calls: the send_message calls]
MqttForward(r, receiver) ==
  IF ~r.ok THEN [out |-> Raised(r.exc), calls |-> <<>>]
  ELSE IF ~r.v.match \/ ~receiver THEN [out |-> Returned(r.v), calls |-> <<>>]
  ELSE IF ~IsSeqValue(r.v.data) THEN [out |-> Raised("TypeError"), calls |-> <<>>]
  ELSE [out |-> Returned(r.v), calls |-> <<SendMessage(r.v)>>]

\* handle_mqtt from the return of match_rule on: the rest of from_mqtt, then
\* the send
handle_mqtt(result, payload, receiver) ==
  MqttForward(from_mqtt(result, payload), receiver)

\* what handle_osc does with the result r of from_osc
OscForward(r) ==
  IF ~r.ok THEN [out |-> Raised(r.exc), calls |-> <<>>]
  ELSE IF ~r.v.match THEN [out |-> Returned(r.v), calls |-> <<>>]
  ELSE [out |-> Returned(r.v), calls |-> <<Publish(r.v)>>]

\* handle_osc from the return of match_rule on
handle_osc(result, oscdata) == OscForward(from_osc(result, oscdata))

\* the handler of thread t from the return of match_rule on
Handler(t, result, data, receiver) ==
  IF t = "mqtt" THEN handle_mqtt(result, data, receiver)
  ELSE handle_osc(result, data)

\* A transport delivers a message to its handler, which calls from_mqtt or
\* from_osc, which calls match_rule: the cache holds the identifier, the
\* stored result is returned and the handler runs to its end.
HandleHit(t) ==
  /\ pc[t] = "idle"
  /\ \E id \in Identifiers, d \in Inputs(t) :
       /\ CacheHas(cache, make_key(id))
       /\ msg' = [msg EXCEPT ![t] = [id |-> id, data |-> d]]
       /\ res' = [res EXCEPT ![t] = CacheGet(cache, make_key(id))]
       /\ cache' = CacheTouch(cache, make_key(id))
       /\ \E h \in {Handler(t, CacheGet(cache, make_key(id)), d, osc_receiver)} :
            Finish(t, h, TRUE)
  /\ UNCHANGED <<given, defs, convs, osc_receiver, fnIn, fnOut>>

\* The same, the cache not holding the identifier: the wrapped match_rule
\* scans the rules.  The rules are read and nothing shared is written.
HandleMiss(t) ==
  /\ pc[t] = "idle"
  /\ \E id \in Identifiers :
       /\ ~CacheHas(cache, make_key(id))
       /\ res' = [res EXCEPT ![t] = match_rule(Rules, id)]
       /\ \E d \in Inputs(t) : msg' = [msg EXCEPT ![t] = [id |-> id, data |-> d]]
  /\ pc' = [pc EXCEPT ![t] = "scanned"]
  /\ out' = [out EXCEPT ![t] = NoOut]
  /\ oscSent' = IF t = "mqtt" THEN <<>> ELSE oscSent
  /\ mqttPublished' = IF t = "osc" THEN <<>> ELSE mqttPublished
  /\ UNCHANGED <<given, defs, convs, osc_receiver, cache, fnIn, fnOut>>

\* The result of the scan is stored in the cache and returned, and the
\* handler runs to its end.
HandleStore(t) ==
  /\ pc[t] = "scanned"
  /\ cache' = CachePut(cache, make_key(msg[t].id), res[t])
  /\ \E h \in {Handler(t, res[t], msg[t].data, osc_receiver)} :
       Finish(t, h, FALSE)
  /\ UNCHANGED <<given, defs, convs, osc_receiver, msg, res, fnIn, fnOut>>

Next ==
  \/ \E t \in Threads : HandleHit(t)
  \/ \E t \in Threads : HandleMiss(t)
  \/ \E t \in Threads : HandleStore(t)

Spec == Init /\ [][Next]_vars

(* ------------------------------------------------------------------ *)
(* Constructing converters from one mapping of rule definitions        *)
(* ------------------------------------------------------------------ *)
\* converters constructed from the same mapping
MaxConverters == 2

FieldChoices(texts) == {PyNone} \cup {PyStr(x) : x \in texts}

\* one-rule mappings over the four fields the constructor parses
RuleDefs ==
  { << <<"r", Section([from_mqtt |-> fm, from_osc |-> fo,
                       address_groups |-> ag, topic_groups |-> tg])>> >> :
      fm \in FieldChoices({<<"i">>, <<"f", ",", "s">>, <<>>}),
      fo \in FieldChoices({<<"s">>, <<"i", "n", "t">>}),
      ag \in FieldChoices({<<"1">>}),
      tg \in FieldChoices({<<"1">>}) }

InitCompile ==
  /\ given \in RuleDefs \cup Configs
  /\ defs = given
  /\ convs = <<>>
  /\ osc_receiver = TRUE
  /\ cache = <<>>
  /\ pc = [t \in Threads |-> "idle"]
  /\ msg = [t \in Threads |-> NoMsg]
  /\ res = [t \in Threads |-> NoRule]
  /\ out = [t \in Threads |-> NoOut]
  /\ oscSent = <<>>
  /\ mqttPublished = <<>>
  /\ fnIn = NoFn
  /\ fnOut = NoFn

\* Osc2MqttConverter(defs)
Construct ==
  /\ Len(convs) < MaxConverters
  /\ \E c \in {Compile(defs)} :
       /\ convs' = Append(convs, [ok |-> c.ok, rules |-> c.rules])
       /\ defs' = c.defs
  /\ UNCHANGED <<given, osc_receiver, cache, pc, msg, res, out, oscSent,
                 mqttPublished, fnIn, fnOut>>

NextCompile == Construct

SpecCompile == InitCompile /\ [][NextCompile]_vars

(* ------------------------------------------------------------------ *)
(* convert_mqtt_values and convert_osc_values applied alone            *)
(* ------------------------------------------------------------------ *)
\* the longest converter list and value sequence tried
MaxLen == 2

SeqsUpTo(S, n) == UNION {[1..k -> S] : k \in 0..n}

ConverterChoices == {PyFunc("int"), PyFunc("str"), PyFunc("float"), PyNone}

ValueChoices == {PyFloat(19), PyStr(<<"x">>), PyInt(3)}

BridgeIdle ==
  /\ given = <<>>
  /\ defs = <<>>
  /\ convs = <<>>
  /\ osc_receiver = FALSE
  /\ cache = <<>>
  /\ pc = [t \in Threads |-> "idle"]
  /\ msg = [t \in Threads |-> NoMsg]
  /\ res = [t \in Threads |-> NoRule]
  /\ out = [t \in Threads |-> NoOut]
  /\ oscSent = <<>>
  /\ mqttPublished = <<>>

bridgeVars == <<given, defs, convs, osc_receiver, cache, pc, msg, res, out,
                oscSent, mqttPublished>>

InitCoerce ==
  /\ BridgeIdle
  /\ fnIn \in [op : {"coerce"}, converters : SeqsUpTo(ConverterChoices, MaxLen),
               values : SeqsUpTo(ValueChoices, MaxLen + 1)]
  /\ fnOut = NoFn

\* the decoded values of from_mqtt are a tuple, the values of from_osc a list
CoerceMqtt ==
  /\ fnOut.op = "none"
  /\ fnOut' = [op |-> "convert_mqtt_values",
               r |-> convert_mqtt_values(fnIn.converters, PyTuple(fnIn.values))]
  /\ UNCHANGED <<bridgeVars, fnIn>>

CoerceOsc ==
  /\ fnOut.op = "none"
  /\ fnOut' = [op |-> "convert_osc_values",
               r |-> convert_osc_values(fnIn.converters, PyList(fnIn.values))]
  /\ UNCHANGED <<bridgeVars, fnIn>>

NextCoerce == CoerceMqtt \/ CoerceOsc

SpecCoerce == InitCoerce /\ [][NextCoerce]_vars

(* ------------------------------------------------------------------ *)
(* encode_values and decode_values applied alone                       *)
(* ------------------------------------------------------------------ *)
CodecTypes == {"struct", "array", "json", "string"}

CodecFormats == {<<"B">>, <<"B", "B">>, <<>>, Utf8}

CodecValues ==
  SeqsUpTo({PyInt(1), PyInt(42)}, MaxLen)
    \cup {<<PyStr(<<"a", "b">>)>>, <<PyStr(<<"a">>), PyStr(<<"b">>)>>,
          <<PyInt(300)>>}

CodecRule(in) == [defaults EXCEPT !.type = in.type, !.format = in.format]

InitCodec ==
  /\ BridgeIdle
  /\ fnIn \in [op : {"codec"}, type : CodecTypes, format : CodecFormats,
               values : CodecValues]
  /\ fnOut = NoFn

\* payload = encode_values(values, rule), values being a list as in from_osc
EncodeValues ==
  /\ fnOut.op = "none"
  /\ fnOut' = [op |-> "encoded",
               payload |-> encode_values(PyList(fnIn.values), CodecRule(fnIn)),
               back |-> Raise("")]
  /\ UNCHANGED <<bridgeVars, fnIn>>

\* decode_values(payload, rule) of what encode_values returned
DecodeValues ==
  /\ fnOut.op = "encoded"
  /\ fnOut.payload.ok
  /\ fnOut' = [fnOut EXCEPT !.op = "decoded",
                            !.back = decode_values(fnOut.payload.v,
                                                   CodecRule(fnIn))]
  /\ UNCHANGED <<bridgeVars, fnIn>>

NextCodec == EncodeValues \/ DecodeValues

SpecCodec == InitCodec /\ [][NextCodec]_vars

(* ------------------------------------------------------------------ *)
(* Properties                                                          *)
(* ------------------------------------------------------------------ *)
\* thread t holds the result of a match_rule call for msg[t].id
Looked(t) == pc[t] = "scanned" \/ out[t].status # "none"

\* thread t's handler call for msg[t] has ended
Ended(t) == pc[t] = "idle" /\ out[t].status # "none"

\* the calls thread t's last handler call issued to the other transport
Calls(t) == IF t = "mqtt" THEN oscSent ELSE mqttPublished

\* the rules whose pattern is found in the identifier
Matching(rules, id) == {i \in 1..Len(rules) : Search(rules[i][2].match, id).ok}

\* the output identifier rule renders for the match m: the address towards
\* OSC, the topic towards MQTT (no template of the model uses {_values})
Rendered(t, rule, m) ==
  Format(IF t = "mqtt" THEN rule.address ELSE rule.topic,
         PosArgs(m), Kwargs(m, PyNone))

\* C1: match_rule returns the earliest-declared rule whose pattern is found
\* in the identifier, with that rule's match, and no rule exactly when no
\* pattern is found; the identifier a handler call returns is rendered from
\* that earliest rule's template, whatever later rules match as well.
C1_FirstMatchWins ==
  \A t \in Threads :
    Looked(t) =>
      LET M == Matching(Rules, msg[t].id)
      IN  IF M = {}
            THEN /\ ~res[t].found
                 /\ out[t].status = "returned" => ~out[t].res.match
            ELSE \E i \in M :
                   /\ \A j \in M : i <= j
                   /\ res[t].found
                   /\ res[t].name = Rules[i][1]
                   /\ res[t].rule = Rules[i][2]
                   /\ res[t].match = Search(Rules[i][2].match, msg[t].id)
                   /\ out[t].status = "returned" =>
                        /\ out[t].res.match
                        /\ Ok(out[t].res.id)
                             = Rendered(t, Rules[i][2], res[t].match)

\* a call has returned the output of the first of two matching rules, the
\* second being the more specific one
C1_Witness ==
  /\ given = <<RuleAny, RuleLight>>
  /\ Ended("mqtt")
  /\ msg["mqtt"].id = <<"a", "/", "7">>
  /\ Matching(Rules, msg["mqtt"].id) = {1, 2}
  /\ out["mqtt"].status = "returned"
  /\ out["mqtt"].res.id = <<"/", "x", "/", "a", "/", "7">>

CodecErrors ==
  {"struct.error", "JSONDecodeError", "UnicodeDecodeError", "LookupError",
   "OverflowError"}

\* C2: no handler call ends by raising a decode or encode failure out of
\* the handler.
C2_FailureIsCaught ==
  \A t \in Threads : ~(out[t].status = "raised" /\ out[t].exc \in CodecErrors)

\* C3: a from_mqtt call whose topic matches a rule with topic_groups set and
\* whose payload decodes returns a result, and the groups' texts are among
\* the values it returns.
C3_TopicGroupsAppended ==
  LET r == res["mqtt"] IN
  (Ended("mqtt") /\ r.found /\ Truthy(r.rule.topic_groups)
     /\ decode_values(msg["mqtt"].data, r.rule).ok)
  => /\ out["mqtt"].status = "returned"
     /\ out["mqtt"].res.match
     /\ IsSeqValue(out["mqtt"].res.data)
     /\ \A g \in 1..Len(r.rule.topic_groups.v) :
          \E k \in 1..Len(out["mqtt"].res.data.v) :
            out["mqtt"].res.data.v[k].t = "str"
            /\ Ok(out["mqtt"].res.data.v[k])
                 = Group1(r.match, r.rule.topic_groups.v[g])

\* what position i of coerce(C, V) is to be: C[i](V[i]) where C has a
\* converter at i, V[i] where it has none
Coerced(C, V, i) ==
  IF i <= Len(C) /\ C[i].t = "func" THEN Call(C[i], V[i]) ELSE Ok(V[i])

\* C4: coerce(C, V) has Len(V) elements, C[i](V[i]) where C has a converter
\* at i and V[i] elsewhere, whenever every conversion it is to make succeeds.
C4_CoercionKeepsLength ==
  (fnOut.op \in {"convert_mqtt_values", "convert_osc_values"}
     /\ \A i \in 1..Len(fnIn.values) :
          Coerced(fnIn.converters, fnIn.values, i).ok)
  => /\ fnOut.r.ok
     /\ Len(fnOut.r.v.v) = Len(fnIn.values)
     /\ \A i \in 1..Len(fnIn.values) :
          Ok(fnOut.r.v.v[i]) = Coerced(fnIn.converters, fnIn.values, i)

\* the result of from_mqtt for the message handle_mqtt last handled, by a
\* scan of the rules
Translated == from_mqtt(match_rule(Rules, msg["mqtt"].id), msg["mqtt"].data)

\* C5 as stated: whenever handle_mqtt has ended for a message whose topic
\* matched a rule and whose translation succeeded, exactly one send of the
\* rendered address and the values has been issued.
C5_AlwaysSent ==
  (Ended("mqtt") /\ Translated.ok /\ Translated.v.match
     /\ IsSeqValue(Translated.v.data))
  => oscSent = <<[address |-> Translated.v.id, args |-> Translated.v.data.v]>>

\* C5 as amended: whenever handle_mqtt has ended for a message, exactly one
\* send_message call with the rendered address and the values has been
\* issued if an OSC receiver is configured, the topic matched a rule and the
\* translation returned a sequence of values; no call has been issued
\* otherwise.
C5_SentIffReceiver ==
  Ended("mqtt")
  => oscSent = IF /\ osc_receiver
                  /\ Translated.ok
                  /\ Translated.v.match
                  /\ IsSeqValue(Translated.v.data)
                 THEN <<[address |-> Translated.v.id,
                         args |-> Translated.v.data.v]>>
                 ELSE <<>>

\* handle_mqtt has translated a message and, a receiver being configured,
\* issued its one send
C5_Witness ==
  /\ Ended("mqtt")
  /\ osc_receiver
  /\ out["mqtt"].status = "returned"
  /\ out["mqtt"].res.match
  /\ Len(oscSent) = 1

\* C6: every result match_rule returns through the cache, hit or miss, is
\* the result a scan of the rules gives for the identifier.
C6_CacheIsTransparent ==
  \A t \in Threads : Looked(t) => res[t] = match_rule(Rules, msg[t].id)

\* a call was answered from the full cache while the identifier another
\* thread stored before has been evicted
C6_Witness ==
  \E t, u \in Threads :
    /\ Ended(t) /\ out[t].hit
    /\ Len(cache) = maxsize
    /\ pc[u] = "idle" /\ out[u].status # "none" /\ ~out[u].hit
    /\ ~CacheHas(cache, make_key(msg[u].id))

\* the representable value sequences of a codec variant
Representable(in) ==
  CASE in.type = "struct" ->
         /\ in.format \in {<<"B">>, <<"B", "B">>}
         /\ Len(in.values) = Len(in.format)
         /\ \A i \in 1..Len(in.values) :
              in.values[i].t = "int" /\ in.values[i].v \in 0..255
    [] in.type = "array" ->
         /\ in.format = <<"B">>
         /\ \A i \in 1..Len(in.values) :
              in.values[i].t = "int" /\ in.values[i].v \in 0..255
    [] in.type = "json" ->
         /\ in.format \in {<<>>, Utf8}
         /\ \A i \in 1..Len(in.values) : in.values[i].t = "int"
    [] in.type = "string" ->
         /\ in.format \in {<<>>, Utf8}
         /\ Len(in.values) = 1
         /\ in.values[1].t = "str"

\* C7: for a value sequence the codec variant can represent, encode_values
\* returns a byte payload and decode_values turns it back into the values.
C7_EncodeInvertsDecode ==
  (fnIn.op = "codec" /\ Representable(fnIn))
  => /\ fnOut.op # "none" => fnOut.payload.ok
     /\ fnOut.op = "decoded" =>
          /\ fnOut.payload.v.t = "bytes"
          /\ fnOut.back.ok
          /\ IsSeqValue(fnOut.back.v)
          /\ fnOut.back.v.v = fnIn.values

\* the outputs of a converter with the given rules for every message of
\* the model
Outputs(rules) ==
  [t \in Threads |->
     [id \in Identifiers |->
        [d \in Inputs(t) |-> Handler(t, match_rule(rules, id), d, TRUE)]]]

\* C8: every construction from the same mapping succeeds, leaves the mapping
\* as it was given, and yields rules that translate every message as the
\* first construction's rules do.
C8_CompileIdempotent ==
  /\ convs # <<>> => defs = given
  /\ \A i \in 1..Len(convs) :
       /\ convs[i].ok
       /\ Outputs(convs[i].rules) = Outputs(convs[1].rules)

AllDefaults(rule) == rule = defaults

\* C9: under a rule with all default fields every identifier matches, and a
\* call that returns renders the address as / followed by the first group
\* and the topic as the first group.
C9_DefaultRoundTrip ==
  \A t \in Threads :
    (Ended(t) /\ given = <<RuleAll>>)
    => /\ res[t].found
       /\ AllDefaults(res[t].rule)
       /\ out[t].status = "returned" =>
            out[t].res.id = (IF t = "mqtt" THEN <<"/">> ELSE <<>>)
                              \o res[t].match.caps[1]

\* C10: whatever the interleaving, a handler call ends as it would alone on
\* a converter freshly constructed from the configuration's rules, with the
\* same calls issued; and the rules are those the constructor compiled.
C10_CallsAreIndependent ==
  /\ convs[1].rules = Compile(given).rules
  /\ \A t \in Threads :
       Ended(t) =>
         LET alone == Handler(t, match_rule(Compile(given).rules, msg[t].id),
                              msg[t].data, osc_receiver)
         IN  /\ out[t].status = alone.out.status
             /\ out[t].exc = alone.out.exc
             /\ out[t].res = alone.out.res
             /\ Calls(t) = alone.calls

\* one thread has ended a call answered from the cache while the other
\* thread, in a call for another identifier, has scanned and not stored yet
C10_Witness ==
  \E t, u \in Threads :
    /\ t # u
    /\ Ended(t) /\ out[t].hit /\ out[t].status = "returned" /\ out[t].res.match
    /\ pc[u] = "scanned"
    /\ msg[u].id # msg[t].id

====
